---- MODULE Spec2Model ----
(***************************************************************************)
(* gossAip: the "real or fake gossip" game.                                *)
(*                                                                         *)
(* Server: the GET handler of the reddit API route (searchReddit,          *)
(* fetchRedditPosts, calculateEngagementScore, generateStories, ...).      *)
(* Client: the GossipGame component (fetchGossip, the seen list kept in    *)
(* local storage, the countdown and the guesses).                          *)
(*                                                                         *)
(* Strings are TLA+ strings; JavaScript's includes, split, toLowerCase and *)
(* length are computed character by character.  Numbers are exact: the     *)
(* engagement score, a float in the code, is kept as an integer multiple   *)
(* of 1/Scale.  Times are milliseconds as returned by Date.now().          *)
(***************************************************************************)
EXTENDS Integers, Sequences, FiniteSets, TLC

VARIABLES
  now,            \* Date.now(), milliseconds
  requests,       \* the HTTP requests to /api/reddit that are not yet settled
  topic,          \* GossipGame state, one variable per useState
  stories,
  selectedIndex,
  correctIndex,
  revealed,
  loading,
  gameStarted,
  timeLeft,
  score,
  attempts,
  gameOver,
  recentStories,
  error,
  localStorage,   \* the item 'recentStories' of the browser's local storage
  recordedAt,     \* history: when the client last recorded a story id as new
  leftOver        \* history: the stories on display were delivered by a fetch
                  \* that was started before the game now played

(***************************************************************************)
(* Bounds of the model                                                     *)
(***************************************************************************)
\* how many posts of AllPosts exist on the forum
MaxPosts == 3
\* how many times the wall clock advances by TickMs
MaxTicks == 1
\* counted guesses per game
MaxAttempts == 1
\* largest change of a post's vote count that is compared
MaxVoteStep == 2
\* length of the seen list up to which the first copy of the page fetches
MaxSeen == 2
\* fetches of the page that are outstanding at the same time
MaxOutstanding == 2

\* the wall clock advances in steps of ninety minutes
TickMs == 90 * 60 * 1000
\* Date.now() of the initial state (400 hours after the epoch of the model)
StartMs == 400 * 60 * 60 * 1000

(***************************************************************************)
(* Sequences and numbers                                                   *)
(***************************************************************************)
Max(a, b) == IF a >= b THEN a ELSE b

Range(s) == {s[i] : i \in 1..Len(s)}

\* Array.prototype.slice(0, n)
Slice(s, n) == SubSeq(s, 1, IF Len(s) < n THEN Len(s) ELSE n)

\* a table is a set of tuples <<argument(s), value>> of a function that is
\* computed once
Lookup(table, a) == (CHOOSE e \in table : e[1] = a)[2]
Lookup2(table, a, b) == (CHOOSE e \in table : e[1] = a /\ e[2] = b)[3]

RECURSIVE Factorial(_)
Factorial(n) == IF n <= 1 THEN 1 ELSE n * Factorial(n - 1)

RECURSIVE SumSeq(_)
SumSeq(s) == IF s = <<>> THEN 0 ELSE Head(s) + SumSeq(Tail(s))

RECURSIVE Concat(_)
Concat(ss) == IF ss = <<>> THEN <<>> ELSE Head(ss) \o Concat(Tail(ss))

\* Array.prototype.sort((a, b) => key(b) - key(a)) for the keys ks of the
\* elements of s: descending, and stable as the sort of JavaScript is
SortDescBy(s, ks) ==
  LET n == Len(s)
      Before(i) == Cardinality({j \in 1..n : ks[j] > ks[i] \/ (ks[j] = ks[i] /\ j < i)})
  IN  [k \in 1..n |-> s[CHOOSE i \in 1..n : Before(i) = k - 1]]

(***************************************************************************)
(* JavaScript strings                                                      *)
(***************************************************************************)
UpperChars == "ABCDEFGHIJKLMNOPQRSTUVWXYZ"
LowerChars == "abcdefghijklmnopqrstuvwxyz"

CharAt(s, i) == SubSeq(s, i, i)

LowerChar(c) ==
  IF \E i \in 1..26 : CharAt(UpperChars, i) = c
  THEN CharAt(LowerChars, CHOOSE i \in 1..26 : CharAt(UpperChars, i) = c)
  ELSE c

UpperChar(c) ==
  IF \E i \in 1..26 : CharAt(LowerChars, i) = c
  THEN CharAt(UpperChars, CHOOSE i \in 1..26 : CharAt(LowerChars, i) = c)
  ELSE c

\* String.prototype.toLowerCase
RECURSIVE ToLowerCase(_)
ToLowerCase(s) ==
  IF Len(s) = 0 THEN ""
  ELSE IF Len(s) = 1 THEN LowerChar(s)
  ELSE LET half == Len(s) \div 2
       IN  ToLowerCase(SubSeq(s, 1, half)) \o ToLowerCase(SubSeq(s, half + 1, Len(s)))

\* String.prototype.includes
Includes(s, t) ==
  \E i \in 1..(Len(s) - Len(t) + 1) : SubSeq(s, i, i + Len(t) - 1) = t

\* String.prototype.split(' '): the empty string gives one empty token
RECURSIVE Split(_)
Split(s) ==
  LET spaces == {i \in 1..Len(s) : CharAt(s, i) = " "}
      first == CHOOSE i \in spaces : \A j \in spaces : i <= j
  IN  IF spaces = {} THEN <<s>>
      ELSE <<SubSeq(s, 1, first - 1)>> \o Split(SubSeq(s, first + 1, Len(s)))

\* Array.prototype.join
RECURSIVE Join(_, _)
Join(ss, sep) ==
  IF ss = <<>> THEN ""
  ELSE IF Len(ss) = 1 THEN ss[1]
  ELSE ss[1] \o sep \o Join(Tail(ss), sep)

RECURSIVE Repeat(_, _)
Repeat(s, n) == IF n = 0 THEN "" ELSE s \o Repeat(s, n - 1)

(***************************************************************************)
(* The forum: posts and their comment trees as the Reddit API returns them *)
(* (a post is child.data of a listing, a comment is child.data of the      *)
(* second listing of the permalink).  upvote_ratio is kept in percent.     *)
(***************************************************************************)
LongText == Repeat("Zed went out for a walk and then came back home. ", 3)

AllPosts == <<
  [id |-> "a1", subreddit |-> "Deuxmoi", permalink |-> "/r/Deuxmoi/comments/a1",
   title |-> "Insider says \"drake\" is dating again", selftext |-> "",
   score |-> 20, num_comments |-> 3, upvote_ratio |-> 90,
   total_awards_received |-> 0, created_utc |-> 1440000],
  [id |-> "b2", subreddit |-> "popheads", permalink |-> "/r/popheads/comments/b2",
   title |-> "Drake and Zed album rumor", selftext |-> "",
   score |-> 10, num_comments |-> 2, upvote_ratio |-> 90,
   total_awards_received |-> 0, created_utc |-> 1440000],
  [id |-> "c3", subreddit |-> "Deuxmoi", permalink |-> "/r/Deuxmoi/comments/c3",
   title |-> "Zed at the mall", selftext |-> "",
   score |-> 5, num_comments |-> 2, upvote_ratio |-> 0,
   total_awards_received |-> 1, created_utc |-> 1437600],
  [id |-> "d4", subreddit |-> "entertainment", permalink |-> "/r/entertainment/comments/d4",
   title |-> "Zed news", selftext |-> LongText,
   score |-> 8, num_comments |-> 0, upvote_ratio |-> 60,
   total_awards_received |-> 0, created_utc |-> 360000],
  [id |-> "e5", subreddit |-> "popculturechat", permalink |-> "/r/popculturechat/comments/e5",
   title |-> "Weather today", selftext |-> "",
   score |-> 7, num_comments |-> 11, upvote_ratio |-> 40,
   total_awards_received |-> 0, created_utc |-> 1435200],
  [id |-> "f6", subreddit |-> "KUWTK", permalink |-> "/r/KUWTK/comments/f6",
   title |-> "Drake scandal", selftext |-> "",
   score |-> 10, num_comments |-> 2, upvote_ratio |-> 90,
   total_awards_received |-> 0, created_utc |-> 1440000],
  [id |-> "g7", subreddit |-> "blogsnark", permalink |-> "/r/blogsnark/comments/g7",
   title |-> "Zed spotted", selftext |-> "",
   score |-> 3, num_comments |-> 1, upvote_ratio |-> 55,
   total_awards_received |-> 0, created_utc |-> 1440000] >>

\* the posts that exist on the forum
Forum == SubSeq(AllPosts, 1, MaxPosts)

\* the comments the forum holds for a permalink.  An element of a comments
\* array is a JavaScript value: a comment child {data: {score, body}} (kind
\* "child") or, where the code passes topComments, a plain string (kind
\* "string", which has no data property)
ForumComments(permalink) ==
  IF permalink = "/r/popheads/comments/b2"
  THEN << [kind |-> "child", score |-> 100, body |-> "He was seen at the studio all week"],
          [kind |-> "child", score |-> 30,  body |-> "No way" ] >>
  ELSE IF permalink = "/r/entertainment/comments/d4"
  THEN << [kind |-> "child", score |-> 60, body |-> "ok" ] >>
  ELSE <<>>

(***************************************************************************)
(* calculateEngagementScore                                                *)
(***************************************************************************)
\* the longest comment list of the forum
MaxCommentCount ==
  LET n(i) == Len(ForumComments(AllPosts[i].permalink))
  IN  n(CHOOSE i \in 1..Len(AllPosts) : \A j \in 1..Len(AllPosts) : n(j) <= n(i))

\* scores are integer multiples of 1/Scale: Scale makes the two averages, the
\* weights 0.5 and 0.01 and the hours of a multiple of TickMs exact
Scale == 300 * Factorial(MaxCommentCount)

\* hoursOld(timestamp), times Scale; nowMs is Date.now()
hoursOld(timestamp, nowMs) == ((nowMs \div 1000 - timestamp) * Scale) \div 3600

\* a score that falls as the votes rise
upvoteScoreInverted(post) == (0 - post.score) * Scale

\* upvoteScore: score * 1.0, times Scale
upvoteScore(post) == post.score * Scale

\* the comment-quality component: avgCommentScore * 0.5 + avgCommentLength * 0.01
commentQuality(comments) ==
  LET Good(c) == c.kind = "child" /\ c.score > 20
      commentScores == SelectSeq(comments, Good)
      n == IF Len(commentScores) = 0 THEN 1 ELSE Len(commentScores)
      sumScore == SumSeq([i \in 1..Len(commentScores) |-> commentScores[i].score])
      sumLength == SumSeq([i \in 1..Len(commentScores) |-> Len(commentScores[i].body)])
  IN  (sumScore * Scale) \div (2 * n) + (sumLength * Scale) \div (100 * n)

\* calculateEngagementScore(post, comments) evaluated at Date.now() = nowMs,
\* times Scale.  A comment is the data object of a comment child; an array of
\* plain strings (topComments) has no element with data.score > 20.
calculateEngagementScore(post, comments, nowMs) ==
  upvoteScore(post)
  + post.num_comments * 2 * Scale
  + (IF post.upvote_ratio # 0 THEN (post.upvote_ratio - 50) * Scale ELSE 0)
  + post.total_awards_received * 10 * Scale
  + Max(0, 100 * Scale - hoursOld(post.created_utc, nowMs)) * 2
  + commentQuality(comments)

\* the topics a player or a caller of the API asks about
Topics == {"drake", "Zed", "the cat"}

\* the strings of topComments as elements of a comments array
StringValues(strings) ==
  [i \in 1..Len(strings) |-> [kind |-> "string", score |-> 0, body |-> strings[i]]]

(***************************************************************************)
(* extractMainSubject                                                      *)
(***************************************************************************)
knownFigures == <<"elon musk", "taylor swift", "kanye", "kardashian", "trump",
                  "biden", "beyonce", "drake", "zuckerberg", "gates">>

\* threw: word[0].toUpperCase() of an empty word raises a TypeError
extractMainSubject(theTopic) ==
  LET lower == ToLowerCase(theTopic)
      words == Split(lower)
      Known(i) == Includes(lower, knownFigures[i])
      IsProper(word) == CharAt(word, 1) = UpperChar(CharAt(word, 1))
      Substantial(word) == Len(word) > 3
      original == Split(theTopic)
      properNouns == Join(SelectSeq(original, IsProper), " ")
  IN  IF \E i \in 1..Len(knownFigures) : Known(i)
      THEN [threw |-> FALSE,
            value |-> knownFigures[CHOOSE i \in 1..Len(knownFigures) :
                                     Known(i) /\ \A j \in 1..(i - 1) : ~Known(j)]]
      ELSE IF \E i \in 1..Len(original) : original[i] = ""
      THEN [threw |-> TRUE, value |-> ""]
      ELSE IF properNouns # ""
      THEN [threw |-> FALSE, value |-> properNouns]
      ELSE [threw |-> FALSE, value |-> Join(SelectSeq(Slice(words, 2), Substantial), " ")]

\* extractMainSubject for every topic, computed once
mainSubjects == {<<t, extractMainSubject(t)>> : t \in Topics}

mainSubjectOf(t) == Lookup(mainSubjects, t)

\* `"${topic}"`, the query of the exact-phrase search
exactQuery(t) == "\"" \o t \o "\""

\* the queries fetchRedditPosts passes to searchReddit
Queries == {exactQuery(t) : t \in Topics} \cup {extractMainSubject(t).value : t \in Topics}

(***************************************************************************)
(* searchReddit                                                            *)
(***************************************************************************)
gossipSubreddits == <<"entertainment", "Deuxmoi", "popculturechat", "celebritygossip",
                      "popheads", "BravoRealHousewives", "KUWTK", "blogsnark",
                      "HollywoodGossip">>

gossipIndicators == <<"rumor", "allegedly", "sources say", "insider", "exclusive",
                      "spotted", "claims", "reveals", "drama", "scandal", "tea",
                      "dating", "breakup", "split", "cheating", "divorce",
                      "announcement", "confirmed", "denied", "source close to">>

\* the general search is tried when the forums gave fewer posts than this
MinForumPosts == 5
\* selftext longer than this, or more comments than MinComments, is substantial
MinSelftext == 100
MinComments == 10

\* The answers to the requests of one searchReddit call: outcomes[k] for
\* k in 1..9 answers the search of gossipSubreddits[k], outcomes[10] the
\* general search.  kind is "ok" (posts holds data.children mapped to
\* child.data), "notok" (response.ok false) or "throw" (fetch rejects or
\* the body cannot be parsed).
GeneralSearch == Len(gossipSubreddits) + 1

\* allPosts at line 210, whether an exception reached the catch, and the
\* requests in the order they were issued: the loop of lines 175-190 awaits
\* the response of one forum before it goes on to the next, so that request
\* k is issued after k - 1 responses, and no request follows one that threw;
\* collected is what the forums had pushed into allPosts when the loop ended
\* or threw, failures the requests that were not answered with posts
collectPosts(outcomes) ==
  LET subs == 1..Len(gossipSubreddits)
      specific == Concat([k \in subs |->
                    IF outcomes[k].kind = "ok" THEN outcomes[k].posts ELSE <<>>])
      general == Len(specific) < MinForumPosts
      thrown == {k \in subs : outcomes[k].kind = "throw"}
      last == IF thrown = {} THEN Len(gossipSubreddits)
              ELSE CHOOSE k \in thrown : \A m \in thrown : k <= m
  IN  [threw |-> thrown # {} \/ (general /\ outcomes[GeneralSearch].kind = "throw"),
       allPosts |-> specific \o (IF general /\ outcomes[GeneralSearch].kind = "ok"
                                 THEN outcomes[GeneralSearch].posts ELSE <<>>),
       issued |-> [k \in 1..last |-> [request |-> k, after |-> k - 1]]
                  \o (IF thrown = {} /\ general
                      THEN <<[request |-> GeneralSearch, after |-> Len(gossipSubreddits)]>>
                      ELSE <<>>),
       collected |-> IF thrown = {} THEN specific
                     ELSE Concat([k \in 1..(last - 1) |->
                            IF outcomes[k].kind = "ok" THEN outcomes[k].posts ELSE <<>>]),
       failures |-> {[request |-> k, kind |-> outcomes[k].kind] :
                       k \in {m \in 1..last : outcomes[m].kind # "ok"}}
                    \cup (IF thrown = {} /\ general /\ outcomes[GeneralSearch].kind # "ok"
                          THEN {[request |-> GeneralSearch,
                                 kind |-> outcomes[GeneralSearch].kind]}
                          ELSE {})]

\* a filter that does not look for the search terms
hasSearchTermsAlways(content, query) == TRUE

\* lines 213-216: some term of the lower-cased query is in the content
hasSearchTerms(content, query) ==
  LET searchTerms == Split(ToLowerCase(query))
  IN  \E i \in 1..Len(searchTerms) : Includes(content, searchTerms[i])

\* lines 226-228
hasGossipIndicators(content) ==
  \E i \in 1..Len(gossipIndicators) : Includes(content, gossipIndicators[i])

\* a filter for which every post is substantial
hasSubstantialContentAlways(post) == TRUE

\* line 231
hasSubstantialContent(post) ==
  Len(post.selftext) > MinSelftext \/ post.num_comments > MinComments

\* the predicate of allPosts.filter
isRelevant(post, query) ==
  LET content == ToLowerCase(post.title \o " " \o post.selftext)
  IN  hasSearchTerms(content, query)
      /\ (hasGossipIndicators(content) \/ hasSubstantialContent(post))

\* isRelevant for every query and post, computed once
relevant == {<<query, post, isRelevant(post, query)>> :
               query \in Queries, post \in Range(AllPosts)}

\* lines 211-238: the filtered allPosts, or [] from the catch
filterPosts(query, collected) ==
  LET Keep(post) == <<query, post, TRUE>> \in relevant
  IN  IF collected.threw THEN <<>> ELSE SelectSeq(collected.allPosts, Keep)

searchReddit(query, outcomes) == filterPosts(query, collectPosts(outcomes))

(***************************************************************************)
(* fetchRedditPosts: comments, engagement and ranking (lines 129-158)      *)
(***************************************************************************)
\* posts returned by fetchRedditPosts at most
TopPosts == 5
\* a top comment has a score above this and a body longer than MinBody
TopCommentScore == 50
MinBody == 20
MaxTopComments == 3

\* fetchPostComments: the children of the comment listing, [] when the
\* request for the permalink fails
fetchPostComments(permalink, failed) ==
  IF permalink \in failed THEN <<>> ELSE ForumComments(permalink)

\* the topComments a post can have: those of its comments, or none when the
\* comment request failed
topCommentsOf(comments) ==
  LET IsTop(c) == c.kind = "child" /\ c.score > TopCommentScore
                  /\ c.body # "" /\ Len(c.body) > MinBody
      top == SelectSeq(comments, IsTop)
  IN  Slice([i \in 1..Len(top) |-> top[i].body], MaxTopComments)

TopCommentLists ==
  {<<>>} \cup {topCommentsOf(ForumComments(AllPosts[i].permalink)) : i \in 1..Len(AllPosts)}

\* a post that is never flagged as a partial match
withEngagementAsExact(post, comments, mainSubject, theTopic, nowMs) ==
  [post |-> post,
   engagementScore |-> calculateEngagementScore(post, comments, nowMs),
   topComments |-> topCommentsOf(comments),
   mainSubject |-> mainSubject,
   isPartialMatch |-> FALSE]

\* the object built for one post at lines 131-151 ({...post, ...})
withEngagement(post, comments, mainSubject, theTopic, nowMs) ==
  [post |-> post,
   engagementScore |-> calculateEngagementScore(post, comments, nowMs),
   topComments |-> topCommentsOf(comments),
   mainSubject |-> mainSubject,
   isPartialMatch |-> mainSubject # theTopic]

\* a ranking that leaves out the posts whose comment request failed
rankPostsWithComments(posts, mainSubject, theTopic, failed, nowMs) ==
  LET Fetched(p) == p.post.permalink \notin failed
      postsWithEngagement ==
        [i \in 1..Len(posts) |->
           withEngagement(posts[i], ForumComments(posts[i].permalink),
                          mainSubject, theTopic, nowMs)]
  IN  SelectSeq(postsWithEngagement, Fetched)

\* postsWithEngagement sorted by engagementScore, the first five
rankPosts(posts, mainSubject, theTopic, failed, nowMs) ==
  LET postsWithEngagement ==
        [i \in 1..Len(posts) |->
           withEngagement(posts[i], fetchPostComments(posts[i].permalink, failed),
                          mainSubject, theTopic, nowMs)]
  IN  Slice(SortDescBy(postsWithEngagement,
                       [i \in 1..Len(posts) |-> postsWithEngagement[i].engagementScore]),
            TopPosts)

\* the calls of calculateEngagementScore that rankPosts makes
scoringCalls(posts, failed, nowMs) ==
  {[post |-> posts[i], comments |-> fetchPostComments(posts[i].permalink, failed),
    at |-> nowMs,
    value |-> calculateEngagementScore(posts[i],
                fetchPostComments(posts[i].permalink, failed), nowMs)] :
     i \in 1..Len(posts)}

(***************************************************************************)
(* formatRedditGossip                                                      *)
(***************************************************************************)
IsSentenceEnd(c) == c \in {".", "!", "?"}

\* String.prototype.split(/[.!?]+/)
RECURSIVE SplitSentences(_)
SplitSentences(s) ==
  LET ends == {i \in 1..Len(s) : IsSentenceEnd(CharAt(s, i))}
      first == CHOOSE i \in ends : \A j \in ends : i <= j
      after == {i \in (first + 1)..Len(s) : ~IsSentenceEnd(CharAt(s, i))}
      next == IF after = {} THEN Len(s) + 1
              ELSE CHOOSE i \in after : \A j \in after : i <= j
  IN  IF ends = {} THEN <<s>>
      ELSE <<SubSeq(s, 1, first - 1)>> \o SplitSentences(SubSeq(s, next, Len(s)))

\* String.prototype.trim (the strings of the model hold no other white space)
RECURSIVE Trim(_)
Trim(s) ==
  IF Len(s) = 0 THEN ""
  ELSE IF CharAt(s, 1) = " " THEN Trim(SubSeq(s, 2, Len(s)))
  ELSE IF CharAt(s, Len(s)) = " " THEN Trim(SubSeq(s, 1, Len(s) - 1))
  ELSE s

TrimAll(ss) == [i \in 1..Len(ss) |-> Trim(ss[i])]

formatRedditGossip(post, comments) ==
  LET postContent == IF post.selftext # "" THEN post.selftext ELSE post.title
      Relevant(c) == c.kind = "child" /\ c.score > TopCommentScore
      rel == SelectSeq(comments, Relevant)
      relevantComments == Slice([i \in 1..Len(rel) |-> rel[i].body], 3)
      Clean(x) == Len(x) > 20 /\ ~Includes(ToLowerCase(x), "submission")
                  /\ ~Includes(ToLowerCase(x), "posted")
      sentences == SelectSeq(TrimAll(SplitSentences(postContent)), Clean)
      sentenceScore(x) ==
        2 * Cardinality({i \in 1..Len(gossipIndicators) :
                           Includes(ToLowerCase(x), gossipIndicators[i])})
        + (IF Len(x) > 100 THEN 1 ELSE 0)
      best == Slice(SortDescBy(sentences,
                               [i \in 1..Len(sentences) |-> sentenceScore(sentences[i])]), 3)
      Long(x) == Len(x) > 20
      commentSentences ==
        Slice(SelectSeq(TrimAll(SplitSentences(Join(relevantComments, " "))), Long), 2)
      bestSentences == IF Len(best) < 2 /\ Len(relevantComments) > 0
                       THEN best \o commentSentences ELSE best
      finalContent == IF Len(bestSentences) >= 2
                      THEN Join(bestSentences, ". ")
                      ELSE post.title \o ". "
                           \o (IF Len(sentences) > 0 THEN sentences[1] ELSE "")
  IN  Trim(finalContent) \o "."

\* formatRedditGossip(post, post.topComments) for every post, computed once
formatted ==
  {<<post, top, formatRedditGossip(post, StringValues(top))>> :
     post \in Range(AllPosts), top \in TopCommentLists}

(***************************************************************************)
(* generateFakeGossip, getTrendingTopic, shuffleArray                      *)
(***************************************************************************)
\* what the completion call does: "text" (a completion with content),
\* "empty" (a completion whose content is empty), "timeout" (the ten-second
\* timer of the race rejects first), "error" (the call rejects)
GenOutcomes == {"text", "empty", "timeout", "error"}

\* the content of a completion
GeneratedText == "Word is that a surprise duet is being recorded in secret."

FallbackGossip(theTopic) ==
  "Here's some alternative gossip about " \o theTopic \o ": "
  \o "Rumor has it that there's been some interesting developments, "
  \o "but we're still waiting for more details to emerge..."

\* a generator without the fallback of its catch block
generateFakeGossipNoFallback(realGossip, theTopic, topComments, isPartialMatch, gen) ==
  IF gen = "text" THEN GeneratedText ELSE "Failed to generate a story"

generateFakeGossip(realGossip, theTopic, topComments, isPartialMatch, gen) ==
  IF gen = "text" THEN GeneratedText
  ELSE IF gen = "empty" THEN "Failed to generate a story"
  ELSE FallbackGossip(theTopic)

\* what the hot listing of r/Deuxmoi answers: "error" (not ok, or the fetch
\* rejects) or the titles of its posts
TrendingOutcomes ==
  { [kind |-> "error", titles |-> <<>>],
    [kind |-> "ok", titles |-> <<>>],
    [kind |-> "ok", titles |-> <<"Daily Discussion Thread",
                                 "Selena Gomez spotted in Paris today">>] }

getTrendingTopic(trending) ==
  LET Celebrity(i) == ~Includes(ToLowerCase(trending.titles[i]), "daily discussion")
                      /\ ~Includes(ToLowerCase(trending.titles[i]), "megathread")
      found == {i \in 1..Len(trending.titles) : Celebrity(i)}
  IN  IF trending.kind = "error" \/ found = {} THEN "Taylor Swift"
      ELSE Join(Slice(Split(trending.titles[CHOOSE i \in found :
                                              \A j \in found : i <= j]), 3), " ")

\* getTrendingTopic for every answer of the listing, computed once
trendingTopics == {<<trending, getTrendingTopic(trending)>> : trending \in TrendingOutcomes}

\* shuffleArray(array); draws[i] is Math.floor(Math.random() * (i + 1)) of
\* the iteration with index i (0-based), a number in 0..i
RECURSIVE shuffleFrom(_, _, _)
shuffleFrom(shuffled, i, draws) ==
  IF i <= 0 THEN shuffled
  ELSE LET j == draws[i]
       IN  shuffleFrom([shuffled EXCEPT ![i + 1] = shuffled[j + 1],
                                        ![j + 1] = shuffled[i + 1]], i - 1, draws)

\* a shuffle that leaves the order as it is
shuffleArrayInPlace(array, draws) == array

shuffleArray(array, draws) == shuffleFrom(array, Len(array) - 1, draws)

(***************************************************************************)
(* generateStories                                                         *)
(***************************************************************************)
\* `${post.subreddit}_${post.id}`
storyIdOf(post) == post.subreddit \o "_" \o post.id

NoFreshGossip(theTopic) ==
  "No fresh gossip found about \"" \o theTopic
  \o "\". Try searching for a different celebrity or check back later for new tea!"

\* a selection that ignores the recently-seen list
freshPostsUnfiltered(posts, recentStoryIds) == posts

\* freshPosts (lines 360-362)
freshPosts(posts, recentStoryIds) ==
  LET Fresh(p) == storyIdOf(p.post) \notin Range(recentStoryIds)
  IN  IF Len(recentStoryIds) > 0 THEN SelectSeq(posts, Fresh) ELSE posts

\* scoredPosts sorted by score (lines 365-375); its first post is bestPost
sortByScore(fresh, nowMs) ==
  SortDescBy(fresh, [i \in 1..Len(fresh) |->
     calculateEngagementScore(fresh[i].post, StringValues(fresh[i].topComments), nowMs)])

\* A returned object or response body is a record with all fields; keys is
\* the set of the properties it really has (JSON drops undefined values).
NoBody == [keys |-> {}, stories |-> <<>>, correctIndex |-> -1, newStoryIds |-> <<>>,
           error |-> "", suggestion |-> "", message |-> "",
           originalTopic |-> "", mainSubject |-> "", isPartialMatch |-> FALSE]

\* the two story objects of lines 391-410; engagementScore is <<score>> or
\* <<>> for undefined, "" stands for a property that is not set
realStoryOf(bestPost) ==
  [content |-> Lookup2(formatted, bestPost.post, bestPost.topComments),
   isReal |-> TRUE,
   redditUrl |-> "https://reddit.com" \o bestPost.post.permalink,
   engagementScore |-> <<bestPost.engagementScore>>,
   isPartialMatch |-> bestPost.isPartialMatch,
   mainSubject |-> bestPost.mainSubject,
   subreddit |-> bestPost.post.subreddit,
   storyId |-> storyIdOf(bestPost.post)]

fakeStoryOf(bestPost, realStory, theTopic, gen, nowMs) ==
  [content |-> generateFakeGossip(realStory, theTopic, bestPost.topComments,
                                  bestPost.isPartialMatch, gen),
   isReal |-> FALSE,
   redditUrl |-> "",
   engagementScore |-> <<>>,
   isPartialMatch |-> bestPost.isPartialMatch,
   mainSubject |-> bestPost.mainSubject,
   subreddit |-> "",
   storyId |-> "fake_" \o theTopic \o "_" \o ToString(nowMs)]

\* an index that does not follow the shuffle
findIndexFirst(storyList) == 0

\* Array.prototype.findIndex(story => story.isReal), 0-based, -1 if none
findIndexReal(storyList) ==
  IF \E i \in 1..Len(storyList) : storyList[i].isReal
  THEN (CHOOSE i \in 1..Len(storyList) :
          storyList[i].isReal /\ \A j \in 1..(i - 1) : ~storyList[j].isReal) - 1
  ELSE -1

\* ids to remember that name every story of the round
newStoryIdsOfAll(storyList) == [k \in 1..Len(storyList) |-> storyList[k].storyId]

\* newStoryIds: [stories[0].storyId] (line 418), stories being the array
\* built at lines 391-410 and not the shuffled copy
newStoryIdsOf(storyList) == <<storyList[1].storyId>>

\* the object generateStories returns
generateStories(posts, theTopic, recentStoryIds, gen, trending, draws, nowMs) ==
  LET sorted == sortByScore(freshPosts(posts, recentStoryIds), nowMs)
  IN  IF sorted = <<>>
      THEN [NoBody EXCEPT !.keys = {"error", "suggestion"},
                          !.error = NoFreshGossip(theTopic),
                          !.suggestion = Lookup(trendingTopics, trending)]
      ELSE LET bestPost == sorted[1]
               real == realStoryOf(bestPost)
               fake == fakeStoryOf(bestPost, real.content, theTopic, gen, nowMs)
               storyList == <<real, fake>>
               shuffledStories == shuffleArray(storyList, draws)
           IN  [NoBody EXCEPT !.keys = {"stories", "correctIndex", "newStoryIds"},
                              !.stories = shuffledStories,
                              !.correctIndex = findIndexReal(shuffledStories),
                              !.newStoryIds = newStoryIdsOf(storyList)]

\* NextResponse.json of lines 516-523: the three destructured properties of
\* the object generateStories returned, and the metadata of posts[0]
successBody(result, posts, theTopic) ==
  [NoBody EXCEPT
     !.keys = (result.keys \cap {"stories", "correctIndex", "newStoryIds"})
              \cup {"originalTopic", "mainSubject", "isPartialMatch"},
     !.stories = result.stories,
     !.correctIndex = result.correctIndex,
     !.newStoryIds = result.newStoryIds,
     !.originalTopic = theTopic,
     !.mainSubject = posts[1].mainSubject,
     !.isPartialMatch = posts[1].isPartialMatch]

errorBody(errorText, suggestion, message) ==
  [NoBody EXCEPT
     !.keys = {"error"} \cup (IF suggestion # "" THEN {"suggestion"} ELSE {})
                        \cup (IF message # "" THEN {"message"} ELSE {}),
     !.error = errorText, !.suggestion = suggestion, !.message = message]

(***************************************************************************)
(* State                                                                   *)
(***************************************************************************)
serverVars == <<now, requests>>
gameVars == <<topic, stories, selectedIndex, correctIndex, revealed, loading,
              gameStarted, timeLeft, score, attempts, gameOver, error>>
seenVars == <<recentStories, localStorage, recordedAt>>
clientVars == <<gameVars, seenVars, leftOver>>
vars == <<serverVars, clientVars>>

\* the story ids of the forum's posts
ForumStoryIds == [i \in 1..Len(Forum) |-> storyIdOf(Forum[i])]

\* the sub-sequences of s (the elements at the positions of a set, in order)
RECURSIVE Pick(_, _)
Pick(s, keep) ==
  IF s = <<>> THEN <<>>
  ELSE Pick(SubSeq(s, 1, Len(s) - 1), keep)
       \o (IF Len(s) \in keep THEN <<s[Len(s)]>> ELSE <<>>)

SubSeqs(s) == {Pick(s, keep) : keep \in SUBSET (1..Len(s))}

\* a request as the handler sees it, with the locals of the handler:
\*   topic, recentStories  the query parameters ("" is a missing topic)
\*   parses                whether the recentStories parameter is JSON text
\*                         (recentStories is its value then)
\*   searched              history: the searchReddit calls made so far
\*   pc                    where the handler stands
\*   mainSubject, posts    locals of fetchRedditPosts
\*   search                query, allPosts and result of the searchReddit call
\*                         that has just returned
\*   ranked                posts of GET (the value fetchRedditPosts returned)
\*   scoring               history: the calls of calculateEngagementScore at
\*                         line 133 (post, comments, time and value)
\*   gen, draws            what the completion call of this request did and
\*                         the random numbers of its shuffle ("" and <<>>
\*                         when generateStories did not get that far)
\*   earlier               history: the page started the request in a game
\*                         before the one now played
\*   status, body          the response, once pc = "done"
NoSearch == [query |-> "", allPosts |-> <<>>, result |-> <<>>, issued |-> <<>>,
             collected |-> <<>>, failures |-> {}, ran |-> FALSE]

NewRequest(from, t, recent, nowMs) ==
  [from |-> from, topic |-> t, parses |-> TRUE, recentStories |-> recent,
   sentAt |-> nowMs, pc |-> "received", mainSubject |-> "", posts |-> <<>>,
   search |-> NoSearch, searched |-> <<>>,
   ranked |-> <<>>, scoring |-> {}, gen |-> "", draws |-> <<>>,
   earlier |-> FALSE, status |-> 0, body |-> NoBody]

Respond(r, status, body) ==
  [r EXCEPT !.pc = "done", !.status = status, !.body = body,
            !.search = NoSearch, !.scoring = {}]

Init ==
  /\ now = StartMs
  /\ requests = <<>>
  /\ topic = ""
  /\ stories = <<>>
  /\ selectedIndex = -1
  /\ correctIndex = -1
  /\ revealed = FALSE
  /\ loading = FALSE
  /\ gameStarted = FALSE
  /\ timeLeft = 30
  /\ score = 0
  /\ attempts = 0
  /\ gameOver = FALSE
  /\ recentStories = <<>>
  /\ error = ""
  /\ localStorage = [present |-> FALSE, items |-> <<>>]
  /\ recordedAt = [id \in Range(ForumStoryIds) |-> -1]
  /\ leftOver = FALSE

(***************************************************************************)
(* The forum's answers                                                     *)
(***************************************************************************)
\* which request of a search fails, and how; at = 0: none fails
FailPoints == {2, GeneralSearch}
FailModes == {[at |-> 0, kind |-> "ok"]}
             \cup {[at |-> k, kind |-> kd] : k \in FailPoints, kd \in {"notok", "throw"}}

\* the answers to one searchReddit call when the forum's search matches hits
\* (a sub-sequence of Forum): the search restricted to a forum (restrict_sr=on)
\* gives the hits of that forum, the general search gives them all
SearchOutcomes(hits, fail) ==
  [k \in 1..GeneralSearch |->
     IF fail.at = k THEN [kind |-> fail.kind, posts |-> <<>>]
     ELSE LET InForum(post) == post.subreddit = gossipSubreddits[k]
          IN  [kind |-> "ok",
               posts |-> IF k = GeneralSearch THEN hits ELSE SelectSeq(hits, InForum)]]

\* collectPosts for every answer of the forum, computed once
collectedPosts ==
  {<<hits, fail, collectPosts(SearchOutcomes(hits, fail))>> :
     hits \in SubSeqs(Forum), fail \in FailModes}

\* what the hot listing of r/popular answers: "error", or the title of its
\* first post ("" when there is none)
PopularOutcomes == { [kind |-> "error", title |-> ""],
                     [kind |-> "ok", title |-> ""],
                     [kind |-> "ok", title |-> "Selena Gomez"] }

\* the answers the services behind the handler may give while a
\* specification runs:
\*   hits          the sub-sequences of Forum the forum's search may match
\*   fails         the ways a search request may fail
\*   commentsFail  whether the comment requests may fail
\*   gens          what the completion call may do
\*   trending      what the trending-topic lookup of generateStories may give
AnyAnswer == [hits |-> SubSeqs(Forum), fails |-> FailModes, commentsFail |-> TRUE,
              gens |-> GenOutcomes, trending |-> TrendingOutcomes]

\* a forum that finds every post or none and services that answer
SteadyAnswer == [hits |-> {Forum, <<>>}, fails |-> {[at |-> 0, kind |-> "ok"]},
                 commentsFail |-> FALSE, gens |-> {"text"},
                 trending |-> {[kind |-> "error", titles |-> <<>>]}]

(***************************************************************************)
(* GET                                                                     *)
(***************************************************************************)
\* lines 475-477 and 524-529: JSON.parse throws on a recentStories parameter
\* that is not JSON text, before the topic is looked at
GETParseError(i) ==
  /\ requests[i].pc = "received"
  /\ ~requests[i].parses
  /\ requests' = [requests EXCEPT ![i] =
       Respond(@, 500, errorBody("Failed to process request", "",
                                 "Unexpected token in JSON"))]
  /\ UNCHANGED <<now, clientVars>>

\* lines 479-502: no topic
GETNoTopic(i) ==
  /\ requests[i].pc = "received"
  /\ requests[i].parses
  /\ requests[i].topic = ""
  /\ \E popular \in PopularOutcomes :
       requests' = [requests EXCEPT ![i] =
         Respond(@, 400, errorBody("Topic is required",
                                   IF popular.kind = "ok" THEN popular.title ELSE "", ""))]
  /\ UNCHANGED <<now, clientVars>>

\* fetchRedditPosts, lines 111-117: the exact-phrase search, and the main
\* subject when it finds nothing
SearchExact(i, answers) ==
  /\ requests[i].pc = "received"
  /\ requests[i].parses
  /\ requests[i].topic # ""
  /\ \E hits \in answers.hits, fail \in answers.fails :
       LET r == requests[i]
           query == exactQuery(r.topic)
           c == Lookup2(collectedPosts, hits, fail)
           posts == filterPosts(query, c)
           search == [query |-> query, allPosts |-> c.allPosts,
                      result |-> posts, issued |-> c.issued,
                      collected |-> c.collected, failures |-> c.failures,
                      ran |-> TRUE]
           searched == <<[query |-> query, timeRange |-> "day"]>>
           subject == mainSubjectOf(r.topic)
       IN  requests' = [requests EXCEPT ![i] =
             IF posts # <<>>
             THEN [r EXCEPT !.pc = "rank", !.mainSubject = r.topic, !.posts = posts,
                            !.search = search, !.searched = searched]
             ELSE IF subject.threw
             THEN Respond([r EXCEPT !.searched = searched], 500,
                          errorBody("Failed to process request", "",
                                    "Cannot read properties of undefined"))
             ELSE [r EXCEPT !.pc = "subject", !.mainSubject = subject.value,
                            !.search = search, !.searched = searched]]
  /\ UNCHANGED <<now, clientVars>>

\* lines 120-127: searchReddit(mainSubject, 'day'); an array is truthy, so
\* the searches of 'week' and 'month' behind || are never evaluated
SearchSubject(i, answers) ==
  /\ requests[i].pc = "subject"
  /\ \E hits \in answers.hits, fail \in answers.fails :
       LET r == requests[i]
           c == Lookup2(collectedPosts, hits, fail)
           posts == filterPosts(r.mainSubject, c)
           search == [query |-> r.mainSubject, allPosts |-> c.allPosts,
                      result |-> posts, issued |-> c.issued,
                      collected |-> c.collected, failures |-> c.failures,
                      ran |-> TRUE]
           searched == Append(r.searched, [query |-> r.mainSubject, timeRange |-> "day"])
       IN  requests' = [requests EXCEPT ![i] =
             IF posts = <<>>
             THEN Respond([r EXCEPT !.searched = searched], 500,
                    errorBody("Failed to process request", "",
                    "No posts found for \"" \o r.topic \o "\" or \""
                    \o r.mainSubject \o "\""))
             ELSE [r EXCEPT !.pc = "rank", !.posts = posts, !.search = search,
                            !.searched = searched]]
  /\ UNCHANGED <<now, clientVars>>

\* lines 129-158: the comments of every post (failed: the permalinks whose
\* comment request fails), the engagement scores, the ranking
RankPosts(i, answers) ==
  /\ requests[i].pc = "rank"
  /\ \E failed \in IF answers.commentsFail
                    THEN SUBSET {requests[i].posts[k].permalink :
                                   k \in 1..Len(requests[i].posts)}
                    ELSE {{}} :
       LET r == requests[i]
       IN  requests' = [requests EXCEPT ![i] =
             [r EXCEPT !.pc = "generate", !.search = NoSearch,
                       !.ranked = rankPosts(r.posts, r.mainSubject, r.topic, failed, now),
                       !.scoring = scoringCalls(r.posts, failed, now)]]
  /\ UNCHANGED <<now, clientVars>>

\* the outcomes of the calls generateStories makes for request r: the
\* completion call and the shuffle when a post is fresh, the trending-topic
\* lookup when none is; a call that is not made has one outcome
CallsOf(r, answers) ==
  LET fresh == freshPosts(r.ranked, r.recentStories) # <<>>
      Only(outcomes) == {CHOOSE outcome \in outcomes : TRUE}
  IN  [gens |-> IF fresh THEN answers.gens ELSE Only(answers.gens),
       trending |-> IF fresh THEN Only(answers.trending) ELSE answers.trending,
       draws |-> IF fresh THEN 0..1 ELSE {0}]

\* lines 506-523: the 404 check, generateStories and the response
GenerateStories(i, answers) ==
  /\ requests[i].pc = "generate"
  /\ \E gen \in CallsOf(requests[i], answers).gens,
        trending \in CallsOf(requests[i], answers).trending,
        j \in CallsOf(requests[i], answers).draws :
       LET r == requests[i]
           result == generateStories(r.ranked, r.topic, r.recentStories,
                                     gen, trending, <<j>>, now)
       IN  requests' = [requests EXCEPT ![i] =
             IF r.ranked = <<>>
             THEN Respond(r, 404, errorBody("No relevant posts found",
                                            "Try a different or broader topic", ""))
             ELSE IF "stories" \in result.keys
             THEN [Respond(r, 200, successBody(result, r.ranked, r.topic))
                     EXCEPT !.gen = gen, !.draws = <<j>>]
             ELSE Respond(r, 200, successBody(result, r.ranked, r.topic))]
  /\ UNCHANGED <<now, clientVars>>

\* the handler of request i runs up to its next await
GET(i) ==
  \/ GETParseError(i)
  \/ GETNoTopic(i)
  \/ SearchExact(i, AnyAnswer)
  \/ SearchSubject(i, AnyAnswer)
  \/ RankPosts(i, AnyAnswer)
  \/ GenerateStories(i, AnyAnswer)

\* time passes
Tick ==
  /\ now < StartMs + MaxTicks * TickMs
  /\ now' = now + TickMs
  /\ UNCHANGED <<requests, clientVars>>

(***************************************************************************)
(* A caller of the API                                                     *)
(***************************************************************************)
\* the recently-seen lists a caller supplies
SeenLists == {<<>>, ForumStoryIds}
             \cup {<<ForumStoryIds[k]>> : k \in 1..Len(ForumStoryIds)}

ApiRequest ==
  /\ requests = <<>>
  /\ \/ \E t \in Topics \cup {""}, recent \in SeenLists :
          requests' = <<NewRequest("api", t, recent, now)>>
     \/ \E t \in Topics \cup {""} :
          requests' = <<[NewRequest("api", t, <<>>, now) EXCEPT !.parses = FALSE]>>
  /\ UNCHANGED <<now, clientVars>>

ApiResponse ==
  /\ requests # <<>>
  /\ requests[1].from = "api"
  /\ requests[1].pc = "done"
  /\ requests' = <<>>
  /\ UNCHANGED <<now, clientVars>>

ServerNext ==
  \/ ApiRequest
  \/ \E i \in 1..Len(requests) : GET(i)
  \/ ApiResponse
  \/ Tick

ServerSpec == Init /\ [][ServerNext]_vars

(***************************************************************************)
(* GossipGame, the page of the player (part_002, lines 325-611)            *)
(***************************************************************************)
OneHourMs == 60 * 60 * 1000
GameSeconds == 30

Remove(s, i) == SubSeq(s, 1, i - 1) \o SubSeq(s, i + 1, Len(s))

FromClient == {i \in 1..Len(requests) : requests[i].from = "client"}

\* the player starts a fetch only when none is outstanding
Idle == FromClient = {}

\* what the player types as topic
TypedTopics == {"drake", ""}

\* which of the three screens the component renders (lines 476, 507, 531)
Screen ==
  IF gameOver THEN "over" ELSE IF ~gameStarted THEN "start" ELSE "game"

\* lines 375-381: fetchGossip up to its await; the request carries the
\* recentStories of the render the handler belongs to
fetchGossipSend(outstanding) ==
  /\ loading' = TRUE
  /\ error' = ""
  /\ requests' = Append(outstanding, NewRequest("client", topic, recentStories, now))

\* the requests outstanding when a game starts: those of the page were
\* started in an earlier game
EarlierGame(outstanding) ==
  [k \in 1..Len(outstanding) |->
     IF outstanding[k].from = "client"
     THEN [outstanding[k] EXCEPT !.earlier = TRUE] ELSE outstanding[k]]

\* lines 357-373, with the useState initialisers of lines 327-339: the page
\* is loaded, from an address without a topic; the requests of the page
\* before it are never answered to it
PageLoad ==
  LET oneHourAgo == now - OneHourMs
      IsRecent(item) == item.timestamp > oneHourAgo
      recent == SelectSeq(localStorage.items, IsRecent)
  IN  /\ topic' = ""
      /\ stories' = <<>>
      /\ selectedIndex' = -1
      /\ correctIndex' = -1
      /\ revealed' = FALSE
      /\ loading' = FALSE
      /\ gameStarted' = FALSE
      /\ timeLeft' = GameSeconds
      /\ score' = 0
      /\ attempts' = 0
      /\ gameOver' = FALSE
      /\ error' = ""
      /\ IF localStorage.present
         THEN /\ recentStories' = [k \in 1..Len(recent) |-> recent[k].id]
              /\ localStorage' = [present |-> TRUE, items |-> recent]
         ELSE /\ recentStories' = <<>>
              /\ UNCHANGED localStorage
      /\ requests' = SelectSeq(requests, LAMBDA r : r.from # "client")
      /\ leftOver' = FALSE
      /\ UNCHANGED <<now, recordedAt>>

\* line 515: the input of the start screen
SetTopic(value) ==
  /\ Screen = "start"
  /\ topic # value
  /\ topic' = value
  /\ UNCHANGED <<serverVars, stories, selectedIndex, correctIndex, revealed, loading,
                 gameStarted, timeLeft, score, attempts, gameOver, error, seenVars,
                 leftOver>>

\* a start that resets attempts and leaves the score of the game before
handleStartGameKeepingScore ==
  /\ \/ Screen = "start" /\ topic # ""
     \/ Screen = "over"
  /\ gameStarted' = TRUE
  /\ UNCHANGED score
  /\ attempts' = 0
  /\ timeLeft' = GameSeconds
  /\ gameOver' = FALSE
  /\ IF topic # ""
     THEN fetchGossipSend(EarlierGame(requests))
     ELSE requests' = EarlierGame(requests) /\ UNCHANGED <<loading, error>>
  /\ leftOver' = (stories # <<>>)
  /\ UNCHANGED <<now, topic, stories, selectedIndex, correctIndex, revealed, seenVars>>

\* lines 421-430, from the button of the start screen (disabled without a
\* topic, line 521) or the Play Again button of the game-over screen
handleStartGame ==
  /\ \/ Screen = "start" /\ topic # ""
     \/ Screen = "over"
  /\ gameStarted' = TRUE
  /\ score' = 0
  /\ attempts' = 0
  /\ timeLeft' = GameSeconds
  /\ gameOver' = FALSE
  /\ IF topic # ""
     THEN fetchGossipSend(EarlierGame(requests))
     ELSE requests' = EarlierGame(requests) /\ UNCHANGED <<loading, error>>
  /\ leftOver' = (stories # <<>>)
  /\ UNCHANGED <<now, topic, stories, selectedIndex, correctIndex, revealed, seenVars>>

\* lines 432-436, from the Next button (lines 600-607)
handleNextGossip ==
  /\ Screen = "game"
  /\ ~loading
  /\ revealed
  /\ IF topic # ""
     THEN fetchGossipSend(requests)
     ELSE UNCHANGED <<loading, error, requests>>
  /\ UNCHANGED <<now, topic, stories, selectedIndex, correctIndex, revealed,
                 gameStarted, timeLeft, score, attempts, gameOver, seenVars, leftOver>>

\* a guess that is counted whatever is selected or revealed
handleGuessAgain(index) ==
  /\ Screen = "game"
  /\ ~loading
  /\ index < Len(stories)
  /\ attempts < MaxAttempts
  /\ selectedIndex' = index
  /\ revealed' = TRUE
  /\ attempts' = attempts + 1
  /\ score' = IF index = correctIndex THEN score + 1 ELSE score
  /\ UNCHANGED <<serverVars, topic, stories, correctIndex, loading, gameStarted,
                 timeLeft, gameOver, error, seenVars, leftOver>>

\* lines 438-447, from the button of story index (lines 551-555)
handleGuess(index) ==
  /\ Screen = "game"
  /\ ~loading
  /\ index < Len(stories)
  /\ ~revealed
  /\ attempts < MaxAttempts
  /\ IF selectedIndex = -1 /\ ~revealed
     THEN /\ selectedIndex' = index
          /\ revealed' = TRUE
          /\ attempts' = attempts + 1
          /\ score' = IF index = correctIndex THEN score + 1 ELSE score
     ELSE UNCHANGED <<selectedIndex, revealed, attempts, score>>
  /\ UNCHANGED <<serverVars, topic, stories, correctIndex, loading, gameStarted,
                 timeLeft, gameOver, error, seenVars, leftOver>>

\* a countdown that stops at zero without ending the game
TimerTickOnly ==
  /\ gameStarted /\ ~gameOver /\ timeLeft > 0
  /\ timeLeft' = timeLeft - 1
  /\ UNCHANGED <<serverVars, topic, stories, selectedIndex, correctIndex, revealed,
                 loading, gameStarted, score, attempts, gameOver, error, seenVars,
                 leftOver>>

\* lines 341-355: one second of the countdown
TimerTick ==
  /\ gameStarted /\ ~gameOver /\ timeLeft > 0
  /\ IF timeLeft <= 1
     THEN gameOver' = TRUE /\ timeLeft' = 0
     ELSE timeLeft' = timeLeft - 1 /\ UNCHANGED gameOver
  /\ UNCHANGED <<serverVars, topic, stories, selectedIndex, correctIndex, revealed,
                 loading, gameStarted, score, attempts, error, seenVars, leftOver>>

\* !data.stories || !data.correctIndex (line 391): a missing value and the
\* number 0 are both falsy
InvalidResponse(body) ==
  \/ "stories" \notin body.keys
  \/ "correctIndex" \notin body.keys
  \/ body.correctIndex = 0

\* data.error || data.message || 'Failed to fetch gossip' (line 388)
ErrorMessage(body) ==
  IF "error" \in body.keys /\ body.error # "" THEN body.error
  ELSE IF "message" \in body.keys /\ body.message # "" THEN body.message
  ELSE "Failed to fetch gossip"

\* lines 382-418: fetchGossip after its await, with the response of request i
fetchGossipResponse(i) ==
  /\ i \in FromClient
  /\ requests[i].pc = "done"
  /\ LET r == requests[i]
         data == r.body
         newRecent == [k \in 1..Len(r.recentStories) |->
                         [id |-> r.recentStories[k], timestamp |-> now]]
                      \o [k \in 1..Len(data.newStoryIds) |->
                            [id |-> data.newStoryIds[k], timestamp |-> now]]
     IN  /\ requests' = Remove(requests, i)
         /\ loading' = FALSE
         /\ IF r.status # 200
            THEN /\ topic' = IF "suggestion" \in data.keys /\ data.suggestion # ""
                             THEN data.suggestion ELSE topic
                 /\ error' = ErrorMessage(data)
                 /\ UNCHANGED <<stories, correctIndex, selectedIndex, revealed,
                                gameStarted, seenVars, leftOver>>
            ELSE IF InvalidResponse(data)
            THEN /\ error' = "Invalid response from server"
                 /\ UNCHANGED <<topic, stories, correctIndex, selectedIndex, revealed,
                                gameStarted, seenVars, leftOver>>
            ELSE /\ stories' = data.stories
                 /\ correctIndex' = data.correctIndex
                 /\ IF "newStoryIds" \in data.keys /\ data.newStoryIds # <<>>
                    THEN /\ recentStories' = [k \in 1..Len(newRecent) |-> newRecent[k].id]
                         /\ localStorage' = [present |-> TRUE, items |-> newRecent]
                         /\ recordedAt' = [id \in DOMAIN recordedAt |->
                                             IF id \in Range(data.newStoryIds)
                                             THEN now ELSE recordedAt[id]]
                    ELSE UNCHANGED seenVars
                 /\ selectedIndex' = -1
                 /\ revealed' = FALSE
                 /\ gameStarted' = TRUE
                 /\ leftOver' = r.earlier
                 /\ UNCHANGED <<topic, error>>
  /\ UNCHANGED <<now, timeLeft, score, attempts, gameOver>>

\* lines 379 and 413-418: the request or the reading of its body fails
fetchGossipRejected(i) ==
  /\ i \in FromClient
  /\ requests' = Remove(requests, i)
  /\ error' = "Failed to fetch"
  /\ loading' = FALSE
  /\ UNCHANGED <<now, topic, stories, selectedIndex, correctIndex, revealed,
                 gameStarted, timeLeft, score, attempts, gameOver, seenVars, leftOver>>

\* the handler of a request of the page, which always names a topic (lines
\* 427 and 433), runs up to its next await
Serve(i) ==
  \/ SearchExact(i, SteadyAnswer)
  \/ SearchSubject(i, SteadyAnswer)
  \/ RankPosts(i, SteadyAnswer)
  \/ GenerateStories(i, SteadyAnswer)

Next ==
  \/ PageLoad
  \/ \E value \in TypedTopics : SetTopic(value)
  \/ Idle /\ handleStartGame
  \/ Idle /\ handleNextGossip
  \/ \E index \in 0..1 : handleGuess(index)
  \/ TimerTick
  \/ \E i \in 1..Len(requests) : fetchGossipResponse(i)
  \/ \E i \in 1..Len(requests) : fetchGossipRejected(i)
  \/ \E i \in 1..Len(requests) : Serve(i)
  \/ Tick

Spec == Init /\ [][Next]_vars

\* the steps of the page and of the handler, at one time of the wall clock
FairNext ==
  \/ PageLoad
  \/ \E value \in TypedTopics : SetTopic(value)
  \/ Idle /\ handleStartGame
  \/ Idle /\ handleNextGossip
  \/ \E index \in 0..1 : handleGuess(index)
  \/ TimerTick
  \/ \E i \in 1..Len(requests) : fetchGossipResponse(i)
  \/ \E i \in 1..Len(requests) : fetchGossipRejected(i)
  \/ \E i \in 1..Len(requests) : Serve(i)

\* the interval of the timer effect (lines 341-355) is set again after every
\* render in which timeLeft has changed and fires one second later
FairSpec == Init /\ [][FairNext]_vars /\ WF_vars(TimerTick)

(***************************************************************************)
(* A player who does not wait for the answer of a fetch: Play Again on the *)
(* game-over screen (lines 476-505) is clicked while fetches are           *)
(* outstanding, MaxOutstanding at most.                                    *)
(***************************************************************************)
ReplayNext ==
  \/ PageLoad
  \/ \E value \in TypedTopics : SetTopic(value)
  \/ Cardinality(FromClient) < MaxOutstanding /\ handleStartGame
  \/ Idle /\ handleNextGossip
  \/ \E index \in 0..1 : handleGuess(index)
  \/ TimerTick
  \/ \E i \in 1..Len(requests) : fetchGossipResponse(i)
  \/ \E i \in 1..Len(requests) : fetchGossipRejected(i)
  \/ \E i \in 1..Len(requests) : Serve(i)

ReplaySpec == Init /\ [][ReplayNext]_vars

(***************************************************************************)
(* GossipGame, the first copy of the page (part_002, lines 29-324). It     *)
(* differs from the second copy in the items it writes to local storage    *)
(* and in the story elements, which are not buttons.                       *)
(***************************************************************************)
\* the value of a property that an object does not have
Undefined == "undefined"

\* item.id and item.timestamp > oneHourAgo for an item of the stored array,
\* which is an object {id, timestamp} or a string [text |-> ...]
idOfItem(item) == IF "id" \in DOMAIN item THEN item.id ELSE Undefined

isRecentItem(item, oneHourAgo) ==
  IF "timestamp" \in DOMAIN item THEN item.timestamp > oneHourAgo ELSE FALSE

\* lines 61-77, with the useState initialisers of lines 31-44
PageLoadFirst ==
  LET oneHourAgo == now - OneHourMs
      IsRecent(item) == isRecentItem(item, oneHourAgo)
      recent == SelectSeq(localStorage.items, IsRecent)
  IN  /\ topic' = ""
      /\ stories' = <<>>
      /\ selectedIndex' = -1
      /\ correctIndex' = -1
      /\ revealed' = FALSE
      /\ loading' = FALSE
      /\ gameStarted' = FALSE
      /\ timeLeft' = GameSeconds
      /\ score' = 0
      /\ attempts' = 0
      /\ gameOver' = FALSE
      /\ error' = ""
      /\ IF localStorage.present
         THEN /\ recentStories' = [k \in 1..Len(recent) |-> idOfItem(recent[k])]
              /\ localStorage' = [present |-> TRUE, items |-> recent]
         ELSE /\ recentStories' = <<>>
              /\ UNCHANGED localStorage
      /\ requests' = SelectSeq(requests, LAMBDA r : r.from # "client")
      /\ leftOver' = FALSE
      /\ UNCHANGED <<now, recordedAt>>

\* newRecent of lines 103-109: the strings of recentStories spread as they
\* are, then an object for each new id
newRecentOf(recent, newStoryIds, nowMs) ==
  [k \in 1..Len(recent) |-> [text |-> recent[k]]]
  \o [k \in 1..Len(newStoryIds) |-> [id |-> newStoryIds[k], timestamp |-> nowMs]]

\* lines 86-122: fetchGossip after its await, with the response of request i
fetchGossipResponseFirst(i) ==
  /\ i \in FromClient
  /\ requests[i].pc = "done"
  /\ LET r == requests[i]
         data == r.body
         newRecent == newRecentOf(r.recentStories, data.newStoryIds, now)
     IN  /\ requests' = Remove(requests, i)
         /\ loading' = FALSE
         /\ IF r.status # 200
            THEN /\ topic' = IF "suggestion" \in data.keys /\ data.suggestion # ""
                             THEN data.suggestion ELSE topic
                 /\ error' = ErrorMessage(data)
                 /\ UNCHANGED <<stories, correctIndex, selectedIndex, revealed,
                                gameStarted, seenVars, leftOver>>
            ELSE IF InvalidResponse(data)
            THEN /\ error' = "Invalid response from server"
                 /\ UNCHANGED <<topic, stories, correctIndex, selectedIndex, revealed,
                                gameStarted, seenVars, leftOver>>
            ELSE /\ stories' = data.stories
                 /\ correctIndex' = data.correctIndex
                 /\ IF "newStoryIds" \in data.keys /\ data.newStoryIds # <<>>
                    THEN /\ recentStories' = [k \in 1..Len(newRecent) |-> idOfItem(newRecent[k])]
                         /\ localStorage' = [present |-> TRUE, items |-> newRecent]
                         /\ recordedAt' = [id \in DOMAIN recordedAt |->
                                             IF id \in Range(data.newStoryIds)
                                             THEN now ELSE recordedAt[id]]
                    ELSE UNCHANGED seenVars
                 /\ selectedIndex' = -1
                 /\ revealed' = FALSE
                 /\ gameStarted' = TRUE
                 /\ leftOver' = r.earlier
                 /\ UNCHANGED <<topic, error>>
  /\ UNCHANGED <<now, timeLeft, score, attempts, gameOver>>

\* the player of the first copy starts a fetch only while the seen list,
\* which this copy never shortens, is short
FirstNext ==
  \/ PageLoadFirst
  \/ \E value \in TypedTopics : SetTopic(value)
  \/ Idle /\ Len(recentStories) < MaxSeen /\ handleStartGame
  \/ Idle /\ Len(recentStories) < MaxSeen /\ handleNextGossip
  \/ \E index \in 0..1 : handleGuess(index)
  \/ TimerTick
  \/ \E i \in 1..Len(requests) : fetchGossipResponseFirst(i)
  \/ \E i \in 1..Len(requests) : fetchGossipRejected(i)
  \/ \E i \in 1..Len(requests) : Serve(i)
  \/ Tick

FirstSpec == Init /\ [][FirstNext]_vars

(***************************************************************************)
(* Properties of the API handler                                           *)
(***************************************************************************)
Settled == {i \in 1..Len(requests) : requests[i].pc = "done"}

\* the response of r carries exactly two stories, one real and one fake, and
\* stories[correctIndex] is the real one
TwoStories(r) ==
  /\ "stories" \in r.body.keys
  /\ Len(r.body.stories) = 2
  /\ Cardinality({k \in 1..2 : r.body.stories[k].isReal}) = 1
  /\ "correctIndex" \in r.body.keys
  /\ r.body.correctIndex \in 0..1
  /\ r.body.stories[r.body.correctIndex + 1].isReal

\* the story ids of the posts fetchRedditPosts returned for r
RankedIds(r) == {storyIdOf(r.ranked[k].post) : k \in 1..Len(r.ranked)}

\* C1 as stated: for a non-empty topic with at least one matching post and
\* any recently-seen list, the response carries exactly two stories, one real
\* and one fake, and stories[correctIndex] is the real one.
C1_TwoStoriesForAnySeenList ==
  \A i \in Settled :
    LET r == requests[i]
    IN  (r.topic # "" /\ r.ranked # <<>>) => TwoStories(r)

\* C1 amended: the same, when at least one of the matching posts that
\* fetchRedditPosts returned is not in the recently-seen list.
C1_TwoStoriesWhenFresh ==
  \A i \in Settled :
    LET r == requests[i]
    IN  (r.topic # "" /\ r.ranked # <<>>
         /\ ~(RankedIds(r) \subseteq Range(r.recentStories)))
        => r.status = 200 /\ TwoStories(r)

\* a request with a seen list that names one of its posts but not all got
\* its response
C1_Witness ==
  \E i \in Settled :
    LET r == requests[i]
    IN  /\ r.topic # "" /\ r.ranked # <<>>
        /\ RankedIds(r) \cap Range(r.recentStories) # {}
        /\ ~(RankedIds(r) \subseteq Range(r.recentStories))
        /\ r.status = 200

\* C2: when the completion call times out or fails, the fake story is the
\* templated fallback and the response is a 200 with two stories, one real
\* and one fake.
C2_FallbackOnTimeout ==
  \A i \in Settled :
    LET r == requests[i]
    IN  r.gen \in {"timeout", "error"}
        => /\ r.status = 200
           /\ TwoStories(r)
           /\ \A k \in 1..2 : ~r.body.stories[k].isReal
                => r.body.stories[k].content = FallbackGossip(r.topic)

C2_Witness ==
  \E i \in Settled : requests[i].gen = "timeout" /\ requests[i].status = 200

\* C5: a post whose id is in the recently-seen list of the request is never
\* the real story of the response.
C5_SeenPostNotChosen ==
  \A i \in Settled :
    LET r == requests[i]
    IN  \A k \in 1..Len(r.body.stories) :
          r.body.stories[k].isReal
          => r.body.stories[k].storyId \notin Range(r.recentStories)

\* a response with stories to a request whose seen list names one of the
\* posts found
C5_Witness ==
  \E i \in Settled :
    LET r == requests[i]
    IN  /\ r.body.stories # <<>>
        /\ RankedIds(r) \cap Range(r.recentStories) # {}

\* C6: when every candidate post is in the recently-seen list, the response
\* carries the 'No fresh gossip found' error and the suggested topic.
C6_NoFreshErrorDelivered ==
  \A i \in Settled :
    LET r == requests[i]
    IN  (r.ranked # <<>> /\ RankedIds(r) \subseteq Range(r.recentStories))
        => /\ "error" \in r.body.keys
           /\ r.body.error = NoFreshGossip(r.topic)
           /\ "suggestion" \in r.body.keys

\* C7: the post of the real story has the maximal engagementScore among the
\* candidate posts that are not recently seen.
C7_TopRankedChosen ==
  \A i \in Settled :
    LET r == requests[i]
    IN  \A k \in 1..Len(r.body.stories), m \in 1..Len(r.ranked) :
          (r.body.stories[k].isReal
           /\ storyIdOf(r.ranked[m].post) \notin Range(r.recentStories))
          => r.ranked[m].engagementScore <= r.body.stories[k].engagementScore[1]

\* the searchReddit calls that have just returned
Searched == {i \in 1..Len(requests) : requests[i].search.ran}

\* the lower-cased title and selftext of a post contain a space-separated
\* token of the (lower-cased) query
ContainsQueryToken(post, query) ==
  LET text == ToLowerCase(post.title \o " " \o post.selftext)
      tokens == Split(ToLowerCase(query))
  IN  \E k \in 1..Len(tokens) : Includes(text, tokens[k])

\* a post contains a gossip keyword or is beyond the length / comment-count
\* threshold
GossipOrSubstantial(post) ==
  LET text == ToLowerCase(post.title \o " " \o post.selftext)
  IN  \/ \E k \in 1..Len(gossipIndicators) : Includes(text, gossipIndicators[k])
      \/ Len(post.selftext) > 100
      \/ post.num_comments > 10

\* both, for the queries and posts of the model, computed once
withQueryToken == {<<query, post, ContainsQueryToken(post, query)>> :
                     query \in Queries, post \in Range(AllPosts)}
gossipOrSubstantial == {<<post, GossipOrSubstantial(post)>> : post \in Range(AllPosts)}

\* C8: the relevance filter of searchReddit excludes every result whose
\* lower-cased title+selftext contains none of the space-separated tokens of
\* the query (compared in lower case, as the text is).
C8_NoTokenExcluded ==
  \A i \in Searched :
    LET sr == requests[i].search
    IN  \A k \in 1..Len(sr.allPosts) :
          <<sr.query, sr.allPosts[k], FALSE>> \in withQueryToken
          => sr.allPosts[k] \notin Range(sr.result)

\* a search fetched a post without any token of the query that the rest of the
\* filter would have kept
C8_Witness ==
  \E i \in Searched :
    LET sr == requests[i].search
    IN  \E k \in 1..Len(sr.allPosts) :
          /\ <<sr.query, sr.allPosts[k], FALSE>> \in withQueryToken
          /\ <<sr.allPosts[k], TRUE>> \in gossipOrSubstantial
          /\ sr.result # <<>>

\* C9: every result the relevance filter keeps contains a gossip keyword or
\* has a selftext longer than 100 characters or more than 10 comments; a
\* result with neither is dropped even when it contains a query token.
C9_KeptIsGossipOrSubstantial ==
  \A i \in Searched :
    LET sr == requests[i].search
    IN  \A k \in 1..Len(sr.result) : <<sr.result[k], TRUE>> \in gossipOrSubstantial

\* a search fetched a post that contains a token of the query and has neither
C9_Witness ==
  \E i \in Searched :
    LET sr == requests[i].search
    IN  \E k \in 1..Len(sr.allPosts) :
          /\ <<sr.query, sr.allPosts[k], TRUE>> \in withQueryToken
          /\ <<sr.allPosts[k], FALSE>> \in gossipOrSubstantial
          /\ sr.result # <<>>

\* C10: calculateEngagementScore is monotonic in the vote count: a post that
\* differs from a scored post only by a larger (smaller) score field gets,
\* with the same comments at the same time, no smaller (larger) value.
C10_MonotonicInVotes ==
  \A i \in 1..Len(requests) :
    \A call \in requests[i].scoring, d \in 1..MaxVoteStep :
      /\ calculateEngagementScore([call.post EXCEPT !.score = @ + d],
                                  call.comments, call.at) >= call.value
      /\ calculateEngagementScore([call.post EXCEPT !.score = @ - d],
                                  call.comments, call.at) <= call.value

\* the handler has scored a post with its comments
C10_Witness ==
  \E i \in 1..Len(requests) :
    \E call \in requests[i].scoring : call.comments # <<>> /\ call.post.score > 0

C4_NoExpiredIdSent ==
  \A i \in FromClient :
    LET r == requests[i]
    IN  \A k \in 1..Len(r.recentStories) :
          r.sentAt - recordedAt[r.recentStories[k]] <= OneHourMs

(***************************************************************************)
(* More properties of the API handler                                      *)
(***************************************************************************)
\* b holds the elements of a, each as often as a does
IsPermutation(a, b) ==
  /\ Len(a) = Len(b)
  /\ \A x \in Range(a) \cup Range(b) :
       Cardinality({k \in 1..Len(a) : a[k] = x})
       = Cardinality({k \in 1..Len(b) : b[k] = x})

\* the draws of shuffleArray for an array of three elements
ThreeDraws == {<<d1, d2>> : d1 \in 0..1, d2 \in 0..2}

\* C11: shuffleArray returns a permutation of its input, and equally likely
\* draws give each ordering once: of the story list [real, fake] the draw
\* j = 0 makes [fake, real] and the draw j = 1 leaves [real, fake]; of three
\* elements the six sequences of draws make six different orderings.
C11_ShuffleIsFairPermutation ==
  /\ \A i \in Settled :
       LET r == requests[i]
       IN  r.draws # <<>>
           => /\ Len(r.body.stories) = 2
              /\ r.draws = <<0>> => ~r.body.stories[1].isReal /\ r.body.stories[2].isReal
              /\ r.draws = <<1>> => r.body.stories[1].isReal /\ ~r.body.stories[2].isReal
  /\ \A d \in ThreeDraws : IsPermutation(shuffleArray(<<"a", "b", "c">>, d), <<"a", "b", "c">>)
  /\ \A d, e \in ThreeDraws :
       d # e => shuffleArray(<<"a", "b", "c">>, d) # shuffleArray(<<"a", "b", "c">>, e)

\* a response whose stories the shuffle has swapped
C11_Witness ==
  \E i \in Settled : requests[i].draws = <<0>> /\ requests[i].status = 200

\* the moments the wall clock shows
Moments == {StartMs + k * TickMs : k \in 0..MaxTicks}

\* C12: the engagement score is a pure function of its inputs: computed
\* again for the same post and the same comments at any other moment, it has
\* the value the handler computed.
C12_ScoreIndependentOfTime ==
  \A i \in 1..Len(requests) :
    \A call \in requests[i].scoring, at \in Moments :
      calculateEngagementScore(call.post, call.comments, at) = call.value

(***************************************************************************)
(* More properties of the page                                             *)
(***************************************************************************)
\* C13: the game is over from the tick on that brings the countdown to zero,
\* whether or not the answer is revealed and a fetch is in progress: in
\* every state timeLeft = 0 implies gameOver, and timeLeft is not negative.
C13_ZeroMeansOver ==
  /\ timeLeft >= 0
  /\ timeLeft = 0 => gameOver

\* the countdown ran out on a revealed round while the next fetch was in
\* progress
C13_Witness ==
  /\ timeLeft = 0 /\ gameOver
  /\ revealed /\ loading /\ FromClient # {}

(***************************************************************************)
(* Properties of searchReddit and of the errors of GET                     *)
(***************************************************************************)
\* C14: the forum-search requests of one searchReddit call are issued
\* concurrently: every request is issued before the response of any other
\* has been awaited, and every forum is asked whatever the other requests do.
C14_SearchesIssuedTogether ==
  \A i \in Searched :
    LET issued == requests[i].search.issued
    IN  /\ \A k \in 1..Len(issued) :
             issued[k].request # GeneralSearch => issued[k].after = 0
        /\ \A f \in 1..Len(gossipSubreddits) :
             \E k \in 1..Len(issued) : issued[k].request = f

\* two elements of a list of posts are the same post
HasDuplicate(posts) ==
  \E k, m \in 1..Len(posts) :
    k # m /\ posts[k].subreddit = posts[m].subreddit /\ posts[k].id = posts[m].id

\* C15: the list searchReddit returns holds no post (same subreddit and id)
\* twice, also when the general search returns a post that the search of a
\* forum has returned.
C15_ResultDeduplicated ==
  \A i \in Searched : ~HasDuplicate(requests[i].search.result)

\* C16: a request without a topic gets status 400 with the error 'Topic is
\* required' and nothing but an optional suggestion, whatever its other
\* parameters hold.
C16_NoTopicIs400 ==
  \A i \in Settled :
    LET r == requests[i]
    IN  r.topic = ""
        => /\ r.status = 400
           /\ "error" \in r.body.keys /\ r.body.error = "Topic is required"
           /\ r.body.keys \subseteq {"error", "suggestion"}

\* the exact-phrase search and the main-subject search of r both ran and
\* neither gave a post
NothingFound(r) ==
  /\ r.pc = "done" /\ r.parses /\ r.topic # ""
  /\ Len(r.searched) >= 2
  /\ r.posts = <<>>

\* C17: when neither the exact-phrase search nor the main-subject search
\* yields a post, the response is a 404 with the error 'No relevant posts
\* found' and a suggestion.
C17_NothingFoundIs404 ==
  \A i \in Settled :
    LET r == requests[i]
    IN  NothingFound(r)
        => /\ r.status = 404
           /\ "error" \in r.body.keys /\ r.body.error = "No relevant posts found"
           /\ "suggestion" \in r.body.keys

\* the comment request of a scoring call failed: the forum holds comments
\* for the post and the handler got none
CommentsFailed(call) ==
  call.comments = <<>> /\ ForumComments(call.post.permalink) # <<>>

\* C18: no failure of an external call stops the handler: whatever the
\* searches, comment requests, trending lookups and the generation call do,
\* a request that has no response yet is at a step of the handler with the
\* posts that step reads, a response has a status and
\* a JSON body (with an error field unless the status is 200), and a post
\* whose comment request failed is scored with an empty comment list and
\* ranked like the others.
C18_FailuresAnswered ==
  \A i \in 1..Len(requests) :
    LET r == requests[i]
    IN  /\ r.pc \in {"received", "subject", "rank", "generate", "done"}
        /\ r.pc = "rank" => r.posts # <<>>
        /\ r.pc = "done"
           => /\ r.status \in {200, 400, 404, 500}
              /\ r.status # 200 => "error" \in r.body.keys
        /\ r.pc = "generate"
           => /\ Len(r.ranked) = (IF Len(r.posts) < TopPosts THEN Len(r.posts) ELSE TopPosts)
              /\ \A call \in r.scoring :
                   /\ call.comments \in {<<>>, ForumComments(call.post.permalink)}
                   /\ Len(r.posts) <= TopPosts
                      => \E k \in 1..Len(r.ranked) :
                           /\ r.ranked[k].post = call.post
                           /\ r.ranked[k].engagementScore = call.value
                           /\ CommentsFailed(call) => r.ranked[k].topComments = <<>>

\* the handler has ranked a post whose comment request failed
C18_Witness ==
  \E i \in 1..Len(requests) :
    /\ requests[i].pc = "generate"
    /\ \E call \in requests[i].scoring : CommentsFailed(call)

\* C19: when the exact-phrase search and the main-subject search of the
\* 'day' range give no post, the main subject is searched in the 'week'
\* range and then in the 'month' range before the request fails.
C19_WeekAndMonthSearched ==
  \A i \in Settled :
    LET r == requests[i]
        Ranges == {r.searched[k].timeRange : k \in 1..Len(r.searched)}
    IN  NothingFound(r) => {"week", "month"} \subseteq Ranges

\* C20: a round counts one guess at most. A step that raises attempts raises
\* it by one, starts with no story selected and the answer hidden, and ends
\* with a story selected and the answer revealed; a step that raises score
\* raises attempts too; and while a story is selected or the answer is
\* revealed no step raises attempts or score.
C20_OneGuessPerRound ==
  [][ /\ attempts' > attempts
         => /\ attempts' = attempts + 1
            /\ selectedIndex = -1 /\ ~revealed
            /\ selectedIndex' # -1 /\ revealed'
            /\ score' \in {score, score + 1}
      /\ score' > score => attempts' > attempts
      /\ (selectedIndex # -1 \/ revealed)
         => attempts' <= attempts /\ score' <= score ]_vars

\* the guess of the round is counted and its stories are still displayed
C20_Witness ==
  /\ Screen = "game"
  /\ ~loading
  /\ revealed
  /\ selectedIndex # -1
  /\ attempts = 1

(***************************************************************************)
(* Properties of the ids to remember                                       *)
(***************************************************************************)
\* C21: in every successful response with two stories, newStoryIds holds one
\* id, the storyId of the real story, which is subreddit_id of the post the
\* real story links to, and not the storyId of the fake story.
C21_NewIdIsRealStory ==
  \A i \in Settled :
    LET r == requests[i]
    IN  (r.status = 200 /\ TwoStories(r))
        => /\ "newStoryIds" \in r.body.keys
           /\ Len(r.body.newStoryIds) = 1
           /\ \A k \in 1..2 :
                LET story == r.body.stories[k]
                IN  IF story.isReal
                    THEN /\ r.body.newStoryIds[1] = story.storyId
                         /\ \E m \in 1..Len(r.ranked) :
                              LET post == r.ranked[m].post
                              IN  /\ story.redditUrl = "https://reddit.com" \o post.permalink
                                  /\ story.storyId = post.subreddit \o "_" \o post.id
                    ELSE r.body.newStoryIds[1] # story.storyId

\* a successful response whose first story is the fake one
C21_Witness ==
  \E i \in Settled :
    LET r == requests[i]
    IN  /\ r.status = 200 /\ TwoStories(r)
        /\ ~r.body.stories[1].isReal
        /\ r.body.newStoryIds # <<>>

\* the ids of the items in local storage
StoredIds == {localStorage.items[k].id : k \in 1..Len(localStorage.items)}

\* C22: when the page handles a 200 response that carries two stories and
\* newStoryIds, those ids are afterwards in the recentStories state and in
\* local storage.
C22_NewIdsRecorded ==
  [][\A i \in 1..Len(requests) :
       (/\ fetchGossipResponse(i)
        /\ requests[i].status = 200
        /\ TwoStories(requests[i])
        /\ requests[i].body.newStoryIds # <<>>)
       => /\ Range(requests[i].body.newStoryIds) \subseteq Range(recentStories')
          /\ localStorage'.present
          /\ Range(requests[i].body.newStoryIds)
             \subseteq {localStorage'.items[k].id : k \in 1..Len(localStorage'.items)}]_vars

\* C23: when the first copy of the page handles a successful response with
\* newStoryIds, the recentStories state afterwards holds every id it held
\* before and the new ids, and nothing that is not the id of a story.
C23_SeenListGrows ==
  [][\A i \in 1..Len(requests) :
       (/\ fetchGossipResponseFirst(i)
        /\ requests[i].status = 200
        /\ ~InvalidResponse(requests[i].body)
        /\ requests[i].body.newStoryIds # <<>>)
       => /\ Range(recentStories) \subseteq Range(recentStories')
          /\ Range(requests[i].body.newStoryIds) \subseteq Range(recentStories')
          /\ Range(recentStories') \subseteq Range(ForumStoryIds)]_vars

(***************************************************************************)
(* Properties of games played one after the other                          *)
(***************************************************************************)
\* C25: score and attempts rise only by guesses on stories that a fetch
\* started in the game now played delivered: no step raises them while the
\* stories on display are left over from before the game.
C25_NoGuessOnLeftOver ==
  [][(attempts' > attempts \/ score' > score) => ~leftOver]_vars

\* C24: at most one fetch of the page is outstanding, loading is true exactly
\* while one is, and the page never applies the response of a fetch that was
\* started in an earlier game.
C24_OneFetchOutstanding ==
  [][/\ Cardinality(FromClient') <= 1
     /\ loading' <=> FromClient' # {}
     /\ \A i \in 1..Len(requests) :
          (fetchGossipResponse(i) /\ stories' # stories) => ~requests[i].earlier]_vars

(***************************************************************************)
(* Properties of the score                                                 *)
(***************************************************************************)
\* the guess that a step of the page counts: the index of the story clicked,
\* or -1 when the step counts none
CountedGuess == IF attempts' = attempts + 1 THEN selectedIndex' ELSE -1

\* C26: score is between 0 and attempts, and a step raises score, by one,
\* exactly when it counts a guess on the story at correctIndex of the stories
\* on display, which is the real one.
C26_ScoreCountsRightGuesses ==
  [][/\ 0 <= score' /\ score' <= attempts'
     /\ score' > score
        <=> (CountedGuess # -1 /\ CountedGuess = correctIndex)
     /\ score' > score
        => /\ score' = score + 1
           /\ stories[correctIndex + 1].isReal]_vars

\* a guess on the real story has been counted
C26_Witness ==
  /\ attempts = 1
  /\ score = 1
  /\ revealed
  /\ selectedIndex = correctIndex
  /\ stories[correctIndex + 1].isReal

(***************************************************************************)
(* The end of a game                                                       *)
(***************************************************************************)
\* C27: a game that has been started reaches game over when the timer keeps
\* firing, whatever the fetches, guesses and Next clicks do (or the page is
\* loaded anew, which ends the game without a game over), and no step taken
\* during play raises timeLeft.
C27_GameEnds ==
  /\ [][(Screen = "game" /\ Screen' = "game") => timeLeft' <= timeLeft]_vars
  /\ (gameStarted /\ ~gameOver) ~> (gameOver \/ ~gameStarted)

\* the countdown has come to its last second during a fetch, after a guess
C27_Witness ==
  /\ gameStarted /\ ~gameOver
  /\ timeLeft = 1
  /\ loading
  /\ attempts = 1

(***************************************************************************)
(* Properties of the main-subject search                                   *)
(***************************************************************************)
\* C28: for a request with a topic, extractMainSubject does not throw and
\* gives a non-empty string, so that no search of the request has an empty
\* query.
C28_MainSubjectNotEmpty ==
  \A i \in 1..Len(requests) :
    LET r == requests[i]
    IN  r.topic # ""
        => /\ ~mainSubjectOf(r.topic).threw
           /\ r.pc = "subject" => r.mainSubject # ""
           /\ \A k \in 1..Len(r.searched) : r.searched[k].query # ""

\* the posts of r came from the main-subject search: the exact-phrase search
\* found nothing and a second search was made
FromFallback(r) == Len(r.searched) = 2

\* the responses that carry the flag
Flagged == {i \in Settled : requests[i].status = 200
                            /\ "isPartialMatch" \in requests[i].body.keys}

\* C29 as stated: the isPartialMatch flag of a response is true if and only
\* if its posts came from the main-subject search.
C29_PartialIffFallback ==
  \A i \in Flagged :
    requests[i].body.isPartialMatch <=> FromFallback(requests[i])

\* C29 amended: the flag is true if and only if the posts came from the
\* main-subject search and the main subject differs from the topic; the
\* stories of the response carry the same flag.
C29_PartialIffOtherSubject ==
  \A i \in Flagged :
    LET r == requests[i]
    IN  /\ r.body.isPartialMatch
           <=> (FromFallback(r) /\ mainSubjectOf(r.topic).value # r.topic)
        /\ \A k \in 1..Len(r.body.stories) :
             r.body.stories[k].isPartialMatch = r.body.isPartialMatch

\* responses with the flag set and responses of the main-subject search
\* without it
C29_Witness ==
  \E i \in Flagged :
    LET r == requests[i]
    IN  /\ FromFallback(r)
        /\ r.body.isPartialMatch
        /\ r.body.stories # <<>>
        /\ r.body.mainSubject # r.topic

(***************************************************************************)
(* Properties of a search with a failing request                           *)
(***************************************************************************)
\* C30: when a request of a searchReddit call fails, by its status, by a
\* network error or by a body that cannot be parsed, the relevant posts that
\* the forums had delivered until then are in the result of the call.
C30_CollectedPostsRetained ==
  \A i \in Searched :
    LET s == requests[i].search
    IN  s.failures # {}
        => \A k \in 1..Len(s.collected) :
             isRelevant(s.collected[k], s.query) => s.collected[k] \in Range(s.result)

=============================================================================
